---- MODULE Spec2Model ----
(***************************************************************************)
(* A model of cerebras_analyzer.py: the start-up configuration check, the  *)
(* pipeline of analyze_repo (clone -> collect -> prompt -> call -> relay   *)
(* -> cleanup) for several processes sharing the temp_clones working area, *)
(* and the pure helpers collect_source_files and build_prompt.             *)
(*                                                                         *)
(* Paths are sequences of segments (pathlib's parts).  A text is the       *)
(* interval [lo, hi) of characters of the file named by src, so a slice    *)
(* keeps where it was cut from.  Strings that are only measured            *)
(* (repo_url, branch, prefix) are kept as strings and measured with Len.   *)
(***************************************************************************)
EXTENDS Integers, Sequences, FiniteSets, TLC

VARIABLES
    \* ---- the processes (one per invocation of the script)
    cwd,        \* os.getcwd(): the directory holding temp_clones, shared by all runs
    fs,         \* the u whose directory DirName(u) exists in temp_clones
    creator,    \* ghost: creator[u] = the run whose mkdir created the existing
                \* directory DirName(u) (0 while it does not exist)
    pc,         \* pc[r]: position of run r in the script
    env,        \* env[r]: the environment read at lines 21-24, <<>> before
    argv,       \* argv[r]: sys.argv[1:] as read at lines 161-167, <<>> before
    tmp_dir,    \* tmp_dir[r]: shallow_clone's local tmp_dir, <<>> while unset
    repo_path,  \* repo_path[r]: analyze_repo's repo_path, <<>> is None
    exc,        \* exc[r]: the exception in flight, <<>> when none
    files,      \* files[r]: result of collect_source_files
    prompt,     \* prompt[r]: result of build_prompt, <<>> before
    stdout,     \* stdout[r]: values printed to the primary channel
    stderr,     \* stderr[r]: notes written to the diagnostic channel
    requests,   \* requests[r]: number of POSTs sent to the completion endpoint
    exitcode,   \* exitcode[r]: process exit status, -1 while running
    trace,      \* ghost: trace[r] = stages entered, in order
    used,       \* ghost: used[r] = the creators of the directories run r has
                \* cloned into, read or removed
    mkdirs,     \* ghost: mkdirs[r] = number of scratch directories run r created
    rmtrees,    \* ghost: rmtrees[r] = outcomes of run r's rmtree calls
    cloned,     \* ghost: cloned[r] = "none" | "ok" | "failed", what clone_from did
    \* ---- the helpers applied to drawn inputs
    h_pc,       \* "idle" | "listed" | "collected" | "built"
    h_root,     \* the clone root handed to collect_source_files
    h_listing,  \* what root.rglob("*") yields, in traversal order
    h_args,     \* [repo_url, branch, prefix] handed to build_prompt
    h_files,    \* result of collect_source_files
    h_prompt    \* result of build_prompt

pvars == <<cwd, fs, creator, pc, env, argv, tmp_dir, repo_path, exc, files,
           prompt, stdout, stderr, requests, exitcode, trace, used, mkdirs,
           rmtrees, cloned>>
hvars == <<h_pc, h_root, h_listing, h_args, h_files, h_prompt>>
vars == <<pvars, hvars>>

----------------------------------------------------------------------------
(* Bounds of the model *)

\* number of concurrent invocations sharing temp_clones
NumRuns == 2
\* number of distinct values uuid.uuid4().hex can take
NumUuids == 2
\* largest number of entries root.rglob("*") yields for the helper inputs
MaxListing == 9

Runs == 1..NumRuns
Uuids == 1..NumUuids

Min(a, b) == IF a < b THEN a ELSE b

----------------------------------------------------------------------------
(* Program constants *)

SOURCE_EXTS == {".js", ".ts", ".jsx", ".tsx", ".py", ".java", ".go", ".c", ".cpp"}
skip_dirs == {"node_modules", ".git", "dist", "build", "venv", "__pycache__"}
max_chars == 15000
snippet_chars == 2000
\* len(intro) with repo_url and branch empty and no prefix
intro_chars == 393

----------------------------------------------------------------------------
(* Paths *)

\* str.lower() on the suffixes that occur
Lower(s) ==
    CASE s = ".PY" -> ".py"
      [] s = ".JAVA" -> ".java"
      [] s = ".Ts" -> ".ts"
      [] s = ".TXT" -> ".txt"
      [] OTHER -> s

\* root / rel for an entry of the tree: a pathlib.Path with what the code reads of it
Place(root, e) ==
    [parts |-> root \o e.rel, suffix |-> e.suffix, is_file |-> e.is_file,
     size |-> e.size, utf8 |-> e.utf8]

\* root.rglob("*"): every entry below root, in traversal order
Rglob(root, listing) == [i \in 1..Len(listing) |-> Place(root, listing[i])]

\* the skip test with node_modules missing from skip_dirs
SkippedWithoutNodeModules(p) ==
    \E skip \in skip_dirs \ {"node_modules"} : \E i \in 1..Len(p.parts) : p.parts[i] = skip
\* any(skip in p.parts for skip in skip_dirs)
Skipped(p) == \E skip \in skip_dirs : \E i \in 1..Len(p.parts) : p.parts[i] = skip

\* p.is_file() and p.suffix.lower() in SOURCE_EXTS
IsSource(p) == p.is_file /\ Lower(p.suffix) \in SOURCE_EXTS

\* collect_source_files(root), given what root.rglob("*") yields
CollectSourceFiles(rglob) == SelectSeq(rglob, LAMBDA p : ~Skipped(p) /\ IsSource(p))

\* f.relative_to(f.parent.parent)
RelativeToRoot(f, root) == SubSeq(f.parts, Len(root) + 1, Len(f.parts))
RelativeTo(f) == SubSeq(f.parts, Len(f.parts) - 1, Len(f.parts))

\* len(str(path)) for a relative path: the segments and the separators between them
RECURSIVE PathStrLen(_)
PathStrLen(path) ==
    IF Len(path) = 0 THEN 0
    ELSE IF Len(path) = 1 THEN Len(path[1])
    ELSE Len(path[1]) + 1 + PathStrLen(Tail(path))

----------------------------------------------------------------------------
(* Texts and the prompt *)

\* f.read_text(encoding="utf-8") when it decodes
ReadText(f) == [src |-> f.parts, lo |-> 0, hi |-> f.size]

\* content[:n]
Slice(text, n) == [text EXCEPT !.hi = Min(text.hi, text.lo + n)]

TextLen(text) == text.hi - text.lo

\* part = f"\n--- {rel} ---\n{snippet}\n"
Part(f) == [label |-> RelativeTo(f), snippet |-> Slice(ReadText(f), snippet_chars)]

PartLen(part) == 5 + PathStrLen(part.label) + 5 + TextLen(part.snippet) + 1

RECURSIVE BodyLen(_)
BodyLen(body) == IF body = <<>> THEN 0 ELSE PartLen(Head(body)) + BodyLen(Tail(body))

\* the budget test without the length of the part to add
OverBudgetBodyOnly(body, part) == BodyLen(body) > max_chars
\* if len(body) + len(part) > max_chars: break
OverBudget(body, part) == BodyLen(body) + PartLen(part) > max_chars

\* the loop of lines 90-100, from file i on
RECURSIVE BodyLoop(_, _, _)
BodyLoop(fl, i, body) ==
    IF i > Len(fl) THEN body
    ELSE IF ~fl[i].utf8 THEN BodyLoop(fl, i + 1, body)
    ELSE IF OverBudget(body, Part(fl[i])) THEN body
    ELSE BodyLoop(fl, i + 1, Append(body, Part(fl[i])))

\* if prefix: (None and "" are both false)
Truthy(prefix) == prefix # <<>> /\ prefix[1] # ""

\* the intro, kept as its fields
Intro(repo_url, branch, prefix) ==
    [prefix |-> IF Truthy(prefix) THEN prefix ELSE <<>>,
     repo_url |-> repo_url, branch |-> branch]

IntroLen(intro) ==
    (IF intro.prefix # <<>> THEN Len(intro.prefix[1]) + 1 ELSE 0)
    + intro_chars + Len(intro.repo_url) + Len(intro.branch)

\* build_prompt(files, repo_url, branch, prefix): intro + "\n" + body
BuildPrompt(fl, repo_url, branch, prefix) ==
    [intro |-> Intro(repo_url, branch, prefix), body |-> BodyLoop(fl, 1, <<>>)]

PromptLen(p) == IntroLen(p.intro) + 1 + BodyLen(p.body)

----------------------------------------------------------------------------
(* The helpers on drawn inputs: one tree, listed in one traversal order,   *)
(* below a clone root located in one of several working directories.       *)

File(rel, suffix, size) ==
    [rel |-> rel, suffix |-> suffix, is_file |-> TRUE, size |-> size, utf8 |-> TRUE]

\* the entries a clone can hold, in the order rglob yields them
Master ==
    << File(<<"main.py">>, ".py", 2500),
       [rel |-> <<"src", "gen.py">>, suffix |-> ".py", is_file |-> FALSE,
        size |-> 0, utf8 |-> TRUE],
       File(<<"src", "app.Ts">>, ".Ts", 2000),
       File(<<"src", "lib", "util.js">>, ".js", 3000),
       File(<<"rebuild", "core.go">>, ".go", 2000),
       File(<<"pkg", "Server.JAVA">>, ".JAVA", 2400),
       File(<<"pkg", "io.c">>, ".c", 1999),
       File(<<"pkg", "conf.py">>, ".py", 800),
       File(<<"pkg", "net.cpp">>, ".cpp", 2001),
       File(<<"web", "view.tsx">>, ".tsx", 2000),
       File(<<"node_modules", "dep", "index.js">>, ".js", 100),
       File(<<"docs", "notes.TXT">>, ".TXT", 50),
       [rel |-> <<"src", "bad.py">>, suffix |-> ".py", is_file |-> TRUE,
        size |-> 10, utf8 |-> FALSE] >>

\* the entries of Master at the positions in S, in Master's order
Pick(S) == SelectSeq([i \in 1..Len(Master) |-> IF i \in S THEN <<Master[i]>> ELSE <<>>],
                     LAMBDA x : x # <<>>)
Listing(S) == [i \in 1..Len(Pick(S)) |-> Pick(S)[i][1]]

\* working directories: one of them has a segment that is in skip_dirs
Cwds == { <<"/", "srv", "app">>, <<"/", "home", "ci", "build", "app">> }

\* base_tmp / f"cerebra-{uuid.uuid4().hex}"
DirName(u) == "cerebra-" \o ToString(u)
CloneRoot(dir, name) == dir \o <<"temp_clones", name>>

RepoUrl == "https://github.com/acme/shop.git"
Prefixes == { <<>>, <<"">>, <<"Focus on authentication.">> }

HCollect ==
    /\ h_pc = "listed"
    /\ h_files' = CollectSourceFiles(Rglob(h_root, h_listing))
    /\ h_pc' = "collected"
    /\ UNCHANGED <<h_root, h_listing, h_args, h_prompt>>
    /\ UNCHANGED pvars

HBuild ==
    /\ h_pc = "collected"
    /\ h_prompt' = BuildPrompt(h_files, h_args.repo_url, h_args.branch, h_args.prefix)
    /\ h_pc' = "built"
    /\ UNCHANGED <<h_root, h_listing, h_args, h_files>>
    /\ UNCHANGED pvars


----------------------------------------------------------------------------
(* The processes.  Each run r is one invocation of the script; the runs    *)
(* share the working directory and so the temp_clones area.                *)

\* the environments and argument lists a run is started with
Envs == [api_key : { <<>>, <<"csk-live">> }, max_tokens : { <<>>, <<"abc">> }]
Argvs == { <<RepoUrl>>, <<RepoUrl, "gone">>,
           <<RepoUrl, "main", "Focus on authentication.">> }

\* the remote repository: its branches and the tree of the branch cloned
RemoteBranches == {"main"}
RemoteTree == Listing({1, 3, 4, 11, 12})

\* os.getenv(name, default)
Getenv(value, default) == IF value = <<>> THEN default ELSE value[1]

\* int(s): <<n>>, or <<>> where int raises ValueError
ParseInt(s) ==
    CASE s = "4000" -> <<4000>>
      [] OTHER -> <<>>

\* the lines of the two channels
Envelope(msg) == <<"error", msg>>
Content(c) == <<"content", c>>
ErrorMsg(e) == <<"ERROR in Python analyzer", e.type, e.msg>>

\* the cause re-raised as it is
CloneErrorUnwrapped(cause) == [type |-> "GitCommandError", msg |-> <<cause>>]
\* raise RuntimeError(f"Git clone failed: {exc}")
CloneError(cause) == [type |-> "RuntimeError", msg |-> <<"Git clone failed", cause>>]

\* mkdir with exist_ok=True never raises on an existing directory
MkdirExistOk(name, dirs) == FALSE
\* tmp_dir.mkdir(parents=True, exist_ok=False) raises FileExistsError
MkdirFails(name, dirs) == name \in dirs

\* a finally block that removes nothing
NeedsCleanupNever(path, dirs) == FALSE
\* repo_path and repo_path.exists()
NeedsCleanup(path, dirs) == path # <<>> /\ path[1] \in dirs

\* a handler that starts the clone again
AfterExceptRetry == "clone"
\* where control goes when the except block of analyze_repo is left
AfterExcept == "finally"

\* the outcomes of the POST: a transport failure (status 0), a non-success
\* status, a success whose JSON lacks the expected fields, a success with content
Responses ==
    { [status |-> 0, content |-> <<>>], [status |-> 500, content |-> <<>>],
      [status |-> 200, content |-> <<>>], [status |-> 200, content |-> <<"{\"issues\": []}">>] }

ResponseError(resp) ==
    IF resp.status = 0 THEN [type |-> "ConnectTimeout", msg |-> <<"timed out">>]
    ELSE IF resp.status # 200 THEN [type |-> "HTTPStatusError", msg |-> <<"Server error", resp.status>>]
    ELSE IF resp.content = <<>> THEN [type |-> "KeyError", msg |-> <<"choices">>]
    ELSE <<>>

Fresh(v) == [r \in Runs |-> v]

\* the processes before their first line runs; the helpers are not exercised
Init ==
    /\ cwd = <<"/", "srv", "app">>
    /\ fs = {}
    /\ creator = [u \in Uuids |-> 0]
    /\ pc = Fresh("new")
    /\ env = Fresh(<<>>)
    /\ argv = Fresh(<<>>)
    /\ tmp_dir = Fresh(<<>>)
    /\ repo_path = Fresh(<<>>)
    /\ exc = Fresh(<<>>)
    /\ files = Fresh(<<>>)
    /\ prompt = Fresh(<<>>)
    /\ stdout = Fresh(<<>>)
    /\ stderr = Fresh(<<>>)
    /\ requests = Fresh(0)
    /\ exitcode = Fresh(-1)
    /\ trace = Fresh(<<>>)
    /\ used = Fresh({})
    /\ mkdirs = Fresh(0)
    /\ rmtrees = Fresh(<<>>)
    /\ cloned = Fresh("none")
    /\ h_pc = "idle"
    /\ h_root = <<>>
    /\ h_listing = <<>>
    /\ h_args = <<>>
    /\ h_files = <<>>
    /\ h_prompt = <<>>

\* the inputs of the helpers: a clone root, what rglob yields below it, and the
\* arguments of build_prompt; no process runs
InitHelpers ==
    /\ h_pc = "listed"
    /\ h_root \in { CloneRoot(d, DirName(1)) : d \in Cwds }
    /\ h_listing \in { Listing(S) : S \in { T \in SUBSET (1..Len(Master)) :
                                            Cardinality(T) <= MaxListing } }
    /\ h_args \in [repo_url : {RepoUrl}, branch : {"main"}, prefix : Prefixes]
    /\ h_files = <<>>
    /\ h_prompt = <<>>
    /\ cwd = <<"/", "srv", "app">>
    /\ fs = {}
    /\ creator = [u \in Uuids |-> 0]
    /\ pc = Fresh("off")
    /\ env = Fresh(<<>>)
    /\ argv = Fresh(<<>>)
    /\ tmp_dir = Fresh(<<>>)
    /\ repo_path = Fresh(<<>>)
    /\ exc = Fresh(<<>>)
    /\ files = Fresh(<<>>)
    /\ prompt = Fresh(<<>>)
    /\ stdout = Fresh(<<>>)
    /\ stderr = Fresh(<<>>)
    /\ requests = Fresh(0)
    /\ exitcode = Fresh(-1)
    /\ trace = Fresh(<<>>)
    /\ used = Fresh({})
    /\ mkdirs = Fresh(0)
    /\ rmtrees = Fresh(<<>>)
    /\ cloned = Fresh("none")

\* lines 21-28, with the environment e: int() of the token count runs before
\* the credential check
Configure(r) ==
    /\ pc[r] = "new"
    /\ \E e \in Envs :
          /\ env' = [env EXCEPT ![r] = e]
          /\ IF ParseInt(Getenv(e.max_tokens, "4000")) = <<>>
             THEN \* ValueError, uncaught: the interpreter prints a traceback, exits 1
                  /\ stderr' = [stderr EXCEPT ![r] = Append(@, "Traceback: ValueError")]
                  /\ exitcode' = [exitcode EXCEPT ![r] = 1]
                  /\ pc' = [pc EXCEPT ![r] = "exited"]
                  /\ UNCHANGED stdout
             ELSE IF e.api_key = <<>> \/ e.api_key = <<"">>
             THEN /\ stdout' = [stdout EXCEPT ![r] =
                                  Append(@, Envelope("CEREBRAS_API_KEY not set in environment"))]
                  /\ exitcode' = [exitcode EXCEPT ![r] = 1]
                  /\ pc' = [pc EXCEPT ![r] = "exited"]
                  /\ UNCHANGED stderr
             ELSE /\ pc' = [pc EXCEPT ![r] = "main"]
                  /\ UNCHANGED <<stdout, stderr, exitcode>>
    /\ UNCHANGED <<cwd, fs, creator, argv, tmp_dir, repo_path, exc, files, prompt,
                   requests, trace, used, mkdirs, rmtrees, cloned>>
    /\ UNCHANGED hvars

\* lines 160-169, with the arguments a: len(sys.argv) < 3 is fewer than two
\* arguments
Main(r) ==
    /\ pc[r] = "main"
    /\ \E a \in Argvs :
          /\ argv' = [argv EXCEPT ![r] = a]
          /\ IF Len(a) < 2
             THEN /\ stdout' = [stdout EXCEPT ![r] = Append(@, Envelope("Usage"))]
                  /\ exitcode' = [exitcode EXCEPT ![r] = 1]
                  /\ pc' = [pc EXCEPT ![r] = "exited"]
             ELSE /\ pc' = [pc EXCEPT ![r] = "start"]
                  /\ UNCHANGED <<stdout, exitcode>>
    /\ UNCHANGED <<cwd, fs, creator, env, tmp_dir, repo_path, exc, files, prompt,
                   stderr, requests, trace, used, mkdirs, rmtrees, cloned>>
    /\ UNCHANGED hvars

\* lines 108-111
Start(r) ==
    /\ pc[r] = "start"
    /\ repo_path' = [repo_path EXCEPT ![r] = <<>>]
    /\ stderr' = [stderr EXCEPT ![r] = Append(@, "Starting analysis")]
    /\ trace' = [trace EXCEPT ![r] = Append(@, "Start")]
    /\ pc' = [pc EXCEPT ![r] = "clone"]
    /\ UNCHANGED <<cwd, fs, creator, env, argv, tmp_dir, exc, files, prompt, stdout,
                   requests, exitcode, used, mkdirs, rmtrees, cloned>>
    /\ UNCHANGED hvars

\* lines 114-115 and 36-40: the scratch directory is named and created
\* (temp_clones itself is made with exist_ok=True and is never removed)
MakeTmpDir(r) ==
    /\ pc[r] = "clone"
    /\ stderr' = [stderr EXCEPT ![r] = Append(@, "Attempting shallow clone")]
    /\ trace' = [trace EXCEPT ![r] = Append(@, "Cloning")]
    /\ \E u \in Uuids :
          IF MkdirFails(u, fs)
          THEN /\ exc' = [exc EXCEPT ![r] = [type |-> "FileExistsError",
                                             msg |-> <<"File exists">>]]
               /\ pc' = [pc EXCEPT ![r] = "except"]
               /\ UNCHANGED <<fs, creator, tmp_dir, mkdirs>>
          ELSE /\ fs' = fs \cup {u}
               /\ creator' = IF u \in fs THEN creator ELSE [creator EXCEPT ![u] = r]
               /\ mkdirs' = IF u \in fs THEN mkdirs ELSE [mkdirs EXCEPT ![r] = @ + 1]
               /\ tmp_dir' = [tmp_dir EXCEPT ![r] = <<u>>]
               /\ pc' = [pc EXCEPT ![r] = "clone_from"]
               /\ UNCHANGED exc
    /\ UNCHANGED <<cwd, env, argv, repo_path, files, prompt, stdout, requests, exitcode,
                   used, rmtrees, cloned>>
    /\ UNCHANGED hvars

\* lines 43-49, 53 and 115-116: clone_from succeeds, only for a branch the remote
\* has; shallow_clone returns tmp_dir
CloneOk(r) ==
    /\ pc[r] = "clone_from"
    /\ argv[r][2] \in RemoteBranches
    /\ used' = [used EXCEPT ![r] = @ \cup {creator[tmp_dir[r][1]]}]
    /\ cloned' = [cloned EXCEPT ![r] = "ok"]
    /\ repo_path' = [repo_path EXCEPT ![r] = tmp_dir[r]]
    /\ tmp_dir' = [tmp_dir EXCEPT ![r] = <<>>]
    /\ stderr' = [stderr EXCEPT ![r] = Append(@, "Clone successful")]
    /\ pc' = [pc EXCEPT ![r] = "collect"]
    /\ UNCHANGED <<cwd, fs, creator, env, argv, exc, files, prompt, stdout,
                   requests, exitcode, trace, mkdirs, rmtrees>>
    /\ UNCHANGED hvars

\* lines 43-50: clone_from raises (network, URL, missing branch, authentication)
CloneFail(r) ==
    /\ pc[r] = "clone_from"
    /\ used' = [used EXCEPT ![r] = @ \cup {creator[tmp_dir[r][1]]}]
    /\ cloned' = [cloned EXCEPT ![r] = "failed"]
    /\ exc' = [exc EXCEPT ![r] =
                 [type |-> "GitCommandError",
                  msg |-> <<IF argv[r][2] \in RemoteBranches THEN "unable to access"
                            ELSE "Remote branch not found">>]]
    /\ pc' = [pc EXCEPT ![r] = "clone_except"]
    /\ UNCHANGED <<cwd, fs, creator, env, argv, tmp_dir, repo_path, files, prompt, stdout,
                   stderr, requests, exitcode, trace, mkdirs, rmtrees>>
    /\ UNCHANGED hvars

\* shutil.rmtree(DirName(u), ignore_errors=True) by run r: the tree goes, or an
\* error is ignored and it stays
Rmtree(r, u, removed) ==
    /\ fs' = IF removed THEN fs \ {u} ELSE fs
    /\ creator' = IF removed THEN [creator EXCEPT ![u] = 0] ELSE creator
    /\ rmtrees' = [rmtrees EXCEPT ![r] = Append(@, removed)]
    /\ used' = [used EXCEPT ![r] = @ \cup {creator[u]}]

\* lines 50-52: the handler in shallow_clone
CloneExcept(r) ==
    /\ pc[r] = "clone_except"
    /\ \E removed \in BOOLEAN : Rmtree(r, tmp_dir[r][1], removed)
    /\ exc' = [exc EXCEPT ![r] = CloneError(exc[r].msg[1])]
    /\ tmp_dir' = [tmp_dir EXCEPT ![r] = <<>>]
    /\ pc' = [pc EXCEPT ![r] = "except"]
    /\ UNCHANGED <<cwd, env, argv, repo_path, files, prompt, stdout,
                   stderr, requests, exitcode, trace, mkdirs, cloned>>
    /\ UNCHANGED hvars

\* lines 119-120: the tree is walked, or the walk raises
Collect(r) ==
    /\ pc[r] = "collect"
    /\ trace' = [trace EXCEPT ![r] = Append(@, "Collecting")]
    /\ used' = [used EXCEPT ![r] = @ \cup {creator[repo_path[r][1]]}]
    /\ \/ /\ files' = [files EXCEPT ![r] = CollectSourceFiles(
                          Rglob(CloneRoot(cwd, DirName(repo_path[r][1])), RemoteTree))]
          /\ stderr' = [stderr EXCEPT ![r] = Append(@, "Collected source files")]
          /\ pc' = [pc EXCEPT ![r] = "build"]
          /\ UNCHANGED exc
       \/ /\ exc' = [exc EXCEPT ![r] = [type |-> "OSError", msg |-> <<"Input/output error">>]]
          /\ pc' = [pc EXCEPT ![r] = "except"]
          /\ UNCHANGED <<files, stderr>>
    /\ UNCHANGED <<cwd, fs, creator, env, argv, tmp_dir, repo_path, prompt, stdout,
                   requests, exitcode, mkdirs, rmtrees, cloned>>
    /\ UNCHANGED hvars

\* lines 123-124
Build(r) ==
    /\ pc[r] = "build"
    /\ trace' = [trace EXCEPT ![r] = Append(@, "Prompting")]
    /\ prompt' = [prompt EXCEPT ![r] =
                    BuildPrompt(files[r], argv[r][1], argv[r][2],
                                IF Len(argv[r]) > 2 THEN <<argv[r][3]>> ELSE <<>>)]
    /\ stderr' = [stderr EXCEPT ![r] = Append(@, "Prompt built")]
    /\ pc' = [pc EXCEPT ![r] = "call"]
    /\ UNCHANGED <<cwd, fs, creator, env, argv, tmp_dir, repo_path, exc, files, stdout,
                   requests, exitcode, used, mkdirs, rmtrees, cloned>>
    /\ UNCHANGED hvars

\* lines 127-143: the request is sent and the coroutine suspends
Call(r) ==
    /\ pc[r] = "call"
    /\ trace' = [trace EXCEPT ![r] = Append(@, "Calling")]
    /\ stderr' = [stderr EXCEPT ![r] = Append(@, "Calling Cerebras API")]
    /\ requests' = [requests EXCEPT ![r] = @ + 1]
    /\ pc' = [pc EXCEPT ![r] = "await"]
    /\ UNCHANGED <<cwd, fs, creator, env, argv, tmp_dir, repo_path, exc, files, prompt,
                   stdout, exitcode, used, mkdirs, rmtrees, cloned>>
    /\ UNCHANGED hvars

\* lines 143-149: the POST returns or raises
Response(r) ==
    /\ pc[r] = "await"
    /\ \E resp \in Responses :
          IF ResponseError(resp) # <<>>
          THEN /\ exc' = [exc EXCEPT ![r] = ResponseError(resp)]
               /\ pc' = [pc EXCEPT ![r] = "except"]
               /\ UNCHANGED <<stdout, stderr, trace>>
          ELSE /\ stderr' = [stderr EXCEPT ![r] = Append(@, "API call successful")]
               /\ stdout' = [stdout EXCEPT ![r] = Append(@, Content(resp.content[1]))]
               /\ trace' = [trace EXCEPT ![r] = Append(@, "Done")]
               /\ pc' = [pc EXCEPT ![r] = "finally"]
               /\ UNCHANGED exc
    /\ UNCHANGED <<cwd, fs, creator, env, argv, tmp_dir, repo_path, files, prompt,
                   requests, exitcode, used, mkdirs, rmtrees, cloned>>
    /\ UNCHANGED hvars

\* lines 151-154
Except(r) ==
    /\ pc[r] = "except"
    /\ trace' = [trace EXCEPT ![r] = Append(@, "Failed")]
    /\ stderr' = [stderr EXCEPT ![r] = Append(@, "ERROR in Python analyzer")]
    /\ stdout' = [stdout EXCEPT ![r] = Append(@, Envelope(ErrorMsg(exc[r])))]
    /\ exc' = [exc EXCEPT ![r] = <<>>]
    /\ pc' = [pc EXCEPT ![r] = AfterExcept]
    /\ UNCHANGED <<cwd, fs, creator, env, argv, tmp_dir, repo_path, files, prompt,
                   requests, exitcode, used, mkdirs, rmtrees, cloned>>
    /\ UNCHANGED hvars

\* lines 155-158; analyze_repo returns and its locals are gone
Finally(r) ==
    /\ pc[r] = "finally"
    /\ trace' = [trace EXCEPT ![r] = Append(@, "Cleanup")]
    /\ IF NeedsCleanup(repo_path[r], fs)
       THEN /\ stderr' = [stderr EXCEPT ![r] = Append(@, "Cleaning up temp directory")]
            /\ \E removed \in BOOLEAN : Rmtree(r, repo_path[r][1], removed)
       ELSE UNCHANGED <<stderr, fs, creator, rmtrees, used>>
    /\ repo_path' = [repo_path EXCEPT ![r] = <<>>]
    /\ files' = [files EXCEPT ![r] = <<>>]
    /\ prompt' = [prompt EXCEPT ![r] = <<>>]
    /\ pc' = [pc EXCEPT ![r] = "return"]
    /\ UNCHANGED <<cwd, env, argv, tmp_dir, exc, stdout,
                   requests, exitcode, mkdirs, cloned>>
    /\ UNCHANGED hvars

\* line 169: asyncio.run returns and the interpreter exits with status 0
Exit(r) ==
    /\ pc[r] = "return"
    /\ exitcode' = [exitcode EXCEPT ![r] = 0]
    /\ pc' = [pc EXCEPT ![r] = "exited"]
    /\ UNCHANGED <<cwd, fs, creator, env, argv, tmp_dir, repo_path, exc, files, prompt,
                   stdout, stderr, requests, trace, used, mkdirs, rmtrees, cloned>>
    /\ UNCHANGED hvars

Next ==
    \E r \in Runs :
          \/ Configure(r)
          \/ Main(r)
          \/ Start(r)
          \/ MakeTmpDir(r)
          \/ CloneOk(r)
          \/ CloneFail(r)
          \/ CloneExcept(r)
          \/ Collect(r)
          \/ Build(r)
          \/ Call(r)
          \/ Response(r)
          \/ Except(r)
          \/ Finally(r)
          \/ Exit(r)

Spec == Init /\ [][Next]_vars

HNext == HCollect \/ HBuild

SpecHelpers == InitHelpers /\ [][HNext]_vars

----------------------------------------------------------------------------
(* Properties of the processes, under Spec *)

Range(seq) == { seq[i] : i \in 1..Len(seq) }

\* analyze_repo was entered by run r and has returned
Finished(r) == pc[r] \in {"return", "exited"} /\ trace[r] # <<>>

\* the directory run r created exists
OwnDirExists(r) == \E u \in fs : creator[u] = r

\* C1: every invocation, whatever its arguments and environment, has written
\* exactly one value to stdout when the process ends: the model's response or
\* an error envelope.
C1_ExactlyOneOutput ==
    \A r \in Runs :
        pc[r] = "exited" =>
            /\ Len(stdout[r]) = 1
            /\ stdout[r][1][1] \in {"content", "error"}

C6_MissingKeyEnvelope ==
    \A r \in Runs :
        pc[r] = "exited" /\ env[r].api_key = <<>> =>
            /\ Len(stdout[r]) = 1
            /\ stdout[r][1][1] = "error"
            /\ exitcode[r] # 0
            /\ mkdirs[r] = 0

SuccessPath == <<"Start", "Cloning", "Collecting", "Prompting", "Calling", "Done", "Cleanup">>
FailedPath(k) == SubSeq(SuccessPath, 1, k) \o <<"Failed", "Cleanup">>
IsPrefix(s, t) == Len(s) <= Len(t) /\ s = SubSeq(t, 1, Len(s))

\* C9: the stages a run has entered are a prefix of Start, Cloning, Collecting,
\* Prompting, Calling, Done, Cleanup, or of the same cut after one of the first
\* five stages and followed by Failed, Cleanup: no stage twice, none after an
\* error but the cleanup; the request is sent at most once, in Calling; and a
\* finished run has reached Cleanup.
C9_StageOrder ==
    \A r \in Runs :
        /\ \/ IsPrefix(trace[r], SuccessPath)
           \/ \E k \in 1..5 : IsPrefix(trace[r], FailedPath(k))
        /\ requests[r] = (IF "Calling" \in Range(trace[r]) THEN 1 ELSE 0)
        /\ Finished(r) => trace[r][Len(trace[r])] = "Cleanup"

C9_Witness ==
    \E r \in Runs, q \in Runs :
        /\ pc[r] = "exited" /\ trace[r] = SuccessPath
        /\ pc[q] = "exited" /\ trace[q] = FailedPath(5)

\* C10: whatever the interleaving of the runs, every directory a run has cloned
\* into, read or removed was created by that run.
C10_OwnScratchOnly == \A r \in Runs : used[r] \subseteq {r}

\* two runs drew the same name: one failed on it, the other used its directory
C10_Witness ==
    \E r \in Runs, q \in Runs :
        /\ r # q
        /\ used[q] = {q}
        /\ pc[r] = "exited"
        /\ trace[r] = FailedPath(2)
        /\ cloned[r] = "none"
        /\ used[r] = {}
        /\ stdout[r] = <<Envelope(<<"ERROR in Python analyzer", "FileExistsError",
                                    <<"File exists">>>>)>>

----------------------------------------------------------------------------
(* Properties of the helpers, under SpecHelpers *)

\* the files of h_files that decode, in order
Readable == SelectSeq(h_files, LAMBDA f : f.utf8)

\* the complete section of file f under the label rel
Section(f, rel) ==
    [label |-> rel,
     snippet |-> [src |-> f.parts, lo |-> 0,
                  hi |-> IF f.size < snippet_chars THEN f.size ELSE snippet_chars]]

LastTwo(f) == <<f.parts[Len(f.parts) - 1], f.parts[Len(f.parts)]>>

\* the body is the complete sections of the first readable files: each file is
\* there whole or not at all
CompleteSections ==
    /\ Len(h_prompt.body) <= Len(Readable)
    /\ \A k \in 1..Len(h_prompt.body) :
          h_prompt.body[k] = Section(Readable[k], LastTwo(Readable[k]))

\* C4: the prompt build_prompt returns is at most 15000 characters long, and
\* every file is in it as its complete section or not at all.
C4_PromptWithinBudget ==
    h_pc = "built" => PromptLen(h_prompt) <= max_chars /\ CompleteSections

\* C4 as amended: the body of the prompt (the file sections) is at most 15000
\* characters long, and every file is in it as its complete section or not at
\* all; the prompt itself is longer by the intro.
C4_BodyWithinBudget ==
    h_pc = "built" => BodyLen(h_prompt.body) <= max_chars /\ CompleteSections

\* a file was left out because its section would not fit
C4_Witness ==
    /\ h_pc = "built"
    /\ Len(h_prompt.body) < Len(Readable)
    /\ Len(h_prompt.body) > 0

Allowed(p) ==
    /\ Lower(p.suffix) \in SOURCE_EXTS
    /\ \A i \in 1..Len(p.parts) : p.parts[i] \notin skip_dirs

\* C5: no file whose extension, lower-cased, is outside the allow-list, and no
\* file with an excluded directory name among the segments of its path, is
\* returned by collect_source_files or has a section in the prompt.
C5_OnlyAllowedFiles ==
    /\ h_pc \in {"collected", "built"} =>
          \A i \in 1..Len(h_files) : Allowed(h_files[i])
    /\ h_pc = "built" =>
          \A k \in 1..Len(h_prompt.body) :
              \E p \in Range(Rglob(h_root, h_listing)) :
                  p.parts = h_prompt.body[k].snippet.src /\ Allowed(p)

C5_Witness ==
    /\ h_pc = "built"
    /\ Len(h_prompt.body) > 0
    /\ \E e \in Range(h_listing) : e.is_file /\ e.rel[1] = "node_modules"
    /\ \E e \in Range(h_listing) : e.is_file /\ e.suffix = ".TXT"

\* C7: the label of every section of the prompt is the path of its file
\* relative to the clone root, and its content is the first 2000 characters of
\* the file at most.
C7_LabelRelativeToRoot ==
    h_pc = "built" =>
        \A k \in 1..Len(h_prompt.body) :
            \E f \in Range(h_files) :
                h_prompt.body[k] = Section(f, RelativeToRoot(f, h_root))

\* C8: wherever the clone root is, collect_source_files returns every regular
\* file below it whose extension is in the allow-list and none of whose
\* segments below the root is an excluded directory name.
C8_AllEligibleCollected ==
    h_pc \in {"collected", "built"} =>
        \A e \in Range(h_listing) :
            ( /\ e.is_file
              /\ Lower(e.suffix) \in SOURCE_EXTS
              /\ \A j \in 1..Len(e.rel) : e.rel[j] \notin skip_dirs )
            => \E f \in Range(h_files) : f.parts = h_root \o e.rel

====
